---- MODULE Spec2Model ----
(***************************************************************************)
(* Model of the diffusions package: the parameter containers (GBMparam,    *)
(* VasicekParam) and the generic Euler simulator SDE.simulate with its     *)
(* helpers sim, euler_loc, euler_scale and reduce.                         *)
(*                                                                         *)
(* Python floats are modelled as exact rationals <<n, d>> (d > 0, lowest   *)
(* terms).  numpy arrays are records [shape, data] with row-major data; a  *)
(* Python scalar is an array of shape << >>.                               *)
(***************************************************************************)
EXTENDS Integers, Sequences, FiniteSets, TLC

(***************************************************************************)
(* Bounds of the model.                                                    *)
(***************************************************************************)
MaxM == 2
MaxN == 3
MaxS == 3
MaxTheta == 4
MaxAgg == 3

(***************************************************************************)
(* Rational arithmetic standing for Python float arithmetic.               *)
(***************************************************************************)
Abs(i) == IF i < 0 THEN -i ELSE i

RECURSIVE Gcd(_, _)
Gcd(a, b) == IF b = 0 THEN a ELSE Gcd(b, a % b)

Rat(n, d) ==
    LET s == IF d < 0 THEN -1 ELSE 1
        g == Gcd(Abs(n), Abs(d))
    IN  <<(s * n) \div g, (s * d) \div g>>

Num(i) == <<i, 1>>
Zero == Num(0)
One == Num(1)
Add(a, b) ==
    LET g == Gcd(a[2], b[2])
    IN  Rat(a[1] * (b[2] \div g) + b[1] * (a[2] \div g), (a[2] \div g) * b[2])
Neg(a) == <<-a[1], a[2]>>
Sub(a, b) == Add(a, Neg(b))
Mul(a, b) ==
    LET g == Gcd(Abs(a[1]), b[2])
        k == Gcd(Abs(b[1]), a[2])
    IN  Rat((a[1] \div g) * (b[1] \div k), (a[2] \div k) * (b[2] \div g))
Div(a, b) == Mul(a, Rat(b[2], b[1]))
Less(a, b) == a[1] * b[2] < b[1] * a[2]

RECURSIVE ISqrtFrom(_, _)
ISqrtFrom(k, n) == IF (k + 1) * (k + 1) > n THEN k ELSE ISqrtFrom(k + 1, n)

\* x ** .5 for x >= 0: exact on squares of rationals, otherwise rounded down
\* to a multiple of 1/4 (a float square root is rounded as well).
Sqrt(a) ==
    LET r == ISqrtFrom(0, a[1] * a[2])
    IN  IF r * r = a[1] * a[2]
        THEN Rat(r, a[2])
        ELSE Rat(ISqrtFrom(0, a[1] * a[2] * 16), a[2] * 4)

(***************************************************************************)
(* numpy arrays: shape and row-major data.                                 *)
(***************************************************************************)
RECURSIVE Prod(_)
Prod(shape) == IF shape = << >> THEN 1 ELSE Head(shape) * Prod(Tail(shape))

Scalar(v) == [shape |-> << >>, data |-> <<v>>]
Vector(seq) == [shape |-> <<Len(seq)>>, data |-> seq]
IsScalar(a) == a.shape = << >>
Size(a) == Len(a.data)

\* numpy broadcasting of two operands that are scalars or one-dimensional
BroadcastOK(a, b) ==
    \/ IsScalar(a) \/ IsScalar(b)
    \/ Size(a) = Size(b) \/ Size(a) = 1 \/ Size(b) = 1

BroadcastLen(a, b) ==
    IF IsScalar(a) THEN Size(b)
    ELSE IF IsScalar(b) THEN Size(a)
    ELSE IF Size(a) = 1 THEN Size(b) ELSE Size(a)

Elem(a, i) == IF Size(a) = 1 THEN a.data[1] ELSE a.data[i]

\* shape of the result: the operands here are scalars, arrays of one shape,
\* or one-dimensional arrays one of which may have a single element
BroadcastShape(a, b) ==
    IF IsScalar(a) THEN b.shape
    ELSE IF IsScalar(b) THEN a.shape
    ELSE IF Size(a) = 1 THEN b.shape ELSE a.shape

\* the arithmetic operators +, -, *, / on two numbers
Arith(op, x, y) ==
    CASE op = "+" -> Add(x, y)
      [] op = "-" -> Sub(x, y)
      [] op = "*" -> Mul(x, y)
      [] op = "/" -> Div(x, y)

\* elementwise binary operation with broadcasting (operands compatible)
Map2(op, a, b) ==
    [shape |-> BroadcastShape(a, b),
     data |-> [i \in 1..BroadcastLen(a, b) |-> Arith(op, Elem(a, i), Elem(b, i))]]

\* x[n] of a two-dimensional array (n counted from 0)
Row(x, n) ==
    LET c == x.shape[2]
    IN  Vector([j \in 1..c |-> x.data[n * c + j]])

\* x[n-1] = v: the row index one too small
SetRowBefore(x, n, v) ==
    LET c == x.shape[2]
    IN  [x EXCEPT !.data = [k \in 1..Len(x.data) |->
            IF k > (n - 1) * c /\ k <= n * c THEN Elem(v, k - (n - 1) * c) ELSE @[k]]]

\* x[n] = v for a two-dimensional x and a value v broadcastable to a row
SetRow(x, n, v) ==
    LET c == x.shape[2]
    IN  [x EXCEPT !.data = [k \in 1..Len(x.data) |->
            IF k > n * c /\ k <= (n + 1) * c THEN Elem(v, k - n * c) ELSE @[k]]]

\* x.flatten()
Flatten(x) == [shape |-> <<Len(x.data)>>, data |-> x.data]

(***************************************************************************)
(* State.                                                                  *)
(*   kind   the model: "GBM" or "Vasicek"                                  *)
(*   param  the parameter object; the simulator's theta_true refers to it  *)
(*   sde    the simulator instance's fields paths, eps, h, N; << >> is     *)
(*          None (paths, eps) or an attribute not yet set (h, N)           *)
(*   rng    state of numpy's global random generator                       *)
(*   pc     position inside simulate; frame its local variables            *)
(*   call   record of the running or last simulate call                    *)
(*   upd    record of the last operation on the parameter object           *)
(*   mom    record of the last call of the moment builder (betamat,        *)
(*          gammamat, momcond)                                             *)
(*   other  a second simulator instance of the same model with a parameter *)
(*          object of its own: its fields sde, and pc, frame and call of   *)
(*          the simulate call running on it                                *)
(***************************************************************************)
VARIABLES kind, param, sde, rng, pc, frame, call, upd, mom, other

\* Python's None, and an attribute that holds no value yet
None == << >>

vars == <<kind, param, sde, rng, pc, frame, call, upd, mom, other>>

(***************************************************************************)
(* Parameter containers.                                                   *)
(***************************************************************************)
Square(a) == Mul(a, a)

GBMparam_update_ajd(p) ==
    [mean |-> p.mean, sigma |-> p.sigma, measure |-> p.measure,
     mat_k0 |-> Sub(p.mean, Div(Square(p.sigma), Num(2))),
     mat_k1 |-> Zero,
     mat_h0 |-> Square(p.sigma),
     mat_h1 |-> Zero]

GBMparam_init(mean, sigma) ==
    GBMparam_update_ajd([mean |-> mean, sigma |-> sigma, measure |-> "P"])

VasicekParam_update_ajd(p) ==
    [mean |-> p.mean, kappa |-> p.kappa, eta |-> p.eta,
     mat_k0 |-> Mul(p.kappa, p.mean),
     mat_k1 |-> Neg(p.kappa),
     mat_h0 |-> Square(p.eta),
     mat_h1 |-> Zero]

VasicekParam_init(mean, kappa, eta) ==
    VasicekParam_update_ajd([mean |-> mean, kappa |-> kappa, eta |-> eta])

\* "a, b = theta" and "[a, b, c] = theta": the targets are assigned only when
\* theta yields exactly k items, otherwise ValueError and nothing is assigned
Unpacks(theta, k) == Len(theta) = k

\* update reading theta[0], theta[1] by index, as from_theta does: a longer
\* vector is accepted
GBMparam_update_indexed(p, theta) ==
    IF Len(theta) >= 2
    THEN [err |-> "none",
          obj |-> GBMparam_update_ajd([p EXCEPT !.mean = theta[1], !.sigma = theta[2]])]
    ELSE [err |-> "IndexError", obj |-> p]

\* update assigning the scalars and leaving out the call of update_ajd
GBMparam_update_stale(p, theta) ==
    IF Unpacks(theta, 2)
    THEN [err |-> "none", obj |-> [p EXCEPT !.mean = theta[1], !.sigma = theta[2]]]
    ELSE [err |-> "ValueError", obj |-> p]

\* update(theta): the outcome [err, obj]
GBMparam_update(p, theta) ==
    IF Unpacks(theta, 2)
    THEN [err |-> "none",
          obj |-> GBMparam_update_ajd([p EXCEPT !.mean = theta[1], !.sigma = theta[2]])]
    ELSE [err |-> "ValueError", obj |-> p]

\* update assigning the targets one by one while theta yields items, and
\* raising when it yields too few or too many
VasicekParam_update_partial(p, theta) ==
    IF Unpacks(theta, 3)
    THEN [err |-> "none",
          obj |-> VasicekParam_update_ajd(
                      [p EXCEPT !.mean = theta[1], !.kappa = theta[2], !.eta = theta[3]])]
    ELSE [err |-> "ValueError",
          obj |-> [p EXCEPT !.mean = IF Len(theta) >= 1 THEN theta[1] ELSE @,
                            !.kappa = IF Len(theta) >= 2 THEN theta[2] ELSE @,
                            !.eta = IF Len(theta) >= 3 THEN theta[3] ELSE @]]

\* update with the targets in the order [mean, eta, kappa]
VasicekParam_update_swapped(p, theta) ==
    IF Unpacks(theta, 3)
    THEN [err |-> "none",
          obj |-> VasicekParam_update_ajd(
                      [p EXCEPT !.mean = theta[1], !.eta = theta[2], !.kappa = theta[3]])]
    ELSE [err |-> "ValueError", obj |-> p]

VasicekParam_update(p, theta) ==
    IF Unpacks(theta, 3)
    THEN [err |-> "none",
          obj |-> VasicekParam_update_ajd(
                      [p EXCEPT !.mean = theta[1], !.kappa = theta[2], !.eta = theta[3]])]
    ELSE [err |-> "ValueError", obj |-> p]

GBMparam_get_theta(p) == <<p.mean, p.sigma>>
VasicekParam_get_theta(p) == <<p.mean, p.kappa, p.eta>>

\* the parameter vectors handed to update
ThetaValues == {Num(-1), Rat(1, 2)}
Thetas == UNION {[1..k -> ThetaValues] : k \in 0..MaxTheta}

\* the objects a caller constructs: GBMparam() with its defaults, the
\* objects of the tests, and one of each model with no diffusion
GBMparams == {GBMparam_init(Zero, Rat(1, 5)), GBMparam_init(Rat(3, 2), Rat(1, 5)),
              GBMparam_init(One, Zero)}
VasicekParams == {VasicekParam_init(Rat(3, 2), One, Rat(1, 5)),
                  VasicekParam_init(Rat(1, 2), One, Rat(1, 10)),
                  VasicekParam_init(Rat(3, 2), One, Zero)}

NoUpd == [op |-> "none", theta |-> << >>, err |-> "none"]

NoMom == [op |-> "none", err |-> "none"]

Update(theta) ==
    /\ pc = "idle"
    /\ LET r == IF kind = "GBM" THEN GBMparam_update(param, theta)
                ELSE VasicekParam_update(param, theta)
       IN  /\ param' = r.obj
           /\ upd' = [op |-> "update", theta |-> theta, err |-> r.err, pre |-> param]
    /\ UNCHANGED <<kind, sde, rng, pc, frame, call, mom, other>>

(***************************************************************************)
(* Drift and diffusion of the two models, and the Euler update.            *)
(***************************************************************************)
GBM_drift(x, theta) == Scalar(Sub(theta.mean, Div(Square(theta.sigma), Num(2))))
GBM_diff(x, theta) == Scalar(theta.sigma)

\* the drift with the difference reversed: kappa * (state - mean)
Vasicek_drift_reversed(state, theta) ==
    Map2("*", Scalar(theta.kappa), Map2("-", state, Scalar(theta.mean)))

Vasicek_drift(state, theta) ==
    Map2("*", Scalar(theta.kappa), Map2("-", Scalar(theta.mean), state))
Vasicek_diff(state, theta) == Scalar(theta.eta)

drift(knd, x, theta) ==
    IF knd = "GBM" THEN GBM_drift(x, theta) ELSE Vasicek_drift(x, theta)
diff(knd, x, theta) ==
    IF knd = "GBM" THEN GBM_diff(x, theta) ELSE Vasicek_diff(x, theta)

\* self.drift(x, theta) * self.h, with self.h passed as h
euler_loc(knd, h, x, theta) == Map2("*", drift(knd, x, theta), Scalar(h))

\* self.diff(x, theta) * self.h**.5
euler_scale(knd, h, x, theta) == Map2("*", diff(knd, x, theta), Scalar(Sqrt(h)))

\* the divisor sim takes for the step: M = error.shape[0]
sim_M(error) == error.shape[1]

\* sim divides Python floats by M and by M**.5: ZeroDivisionError for M = 0
sim_raises(error) == sim_M(error) = 0

\* the value sim(z, error) returns for the model knd, parameters theta and
\* interval length h = self.h
sim_value(knd, theta, h, z, error) ==
    LET M == sim_M(error)
    IN  Map2("+",
             Map2("/", euler_loc(knd, h, z, theta), Scalar(Num(M))),
             Map2("*",
                  Map2("/", euler_scale(knd, h, z, theta), Scalar(Sqrt(Num(M)))),
                  error))

\* sim reading the interval length the instance held before this call
\* (self.h assigned only after the loop)
sim_stale_h(z, error) ==
    sim_value(kind, param,
              IF call.pre.h = None THEN sde.h[1] ELSE call.pre.h[1], z, error)

\* sim as the instance runs it: it reads self.h and self.theta_true
sim(z, error) == sim_value(kind, param, sde.h[1], z, error)

(***************************************************************************)
(* numpy's random generator: a stream of standard normal draws (whole      *)
(* numbers here) that the global generator state rng walks through.        *)
(***************************************************************************)
NormalStream == <<1, -2, 0, 2, -1, 1, -1>>

StreamAt(k) == NormalStream[(k % Len(NormalStream)) + 1]

\* np.random.normal(size=size, scale=scale) with the generator at state r
normal(r, size, scale) ==
    [shape |-> size,
     data |-> [k \in 1..Prod(size) |-> Mul(scale, Num(StreamAt(r + k - 1)))]]

\* e of "for e in eps" inside reduce(sim, eps[n], x): the slice eps[n][m]
EpsSlice(eps, n, m) ==
    LET M == eps.shape[2]
        S == eps.shape[3]
    IN  Vector([s \in 1..S |-> eps.data[(n * M + m) * S + s]])

\* np.ones((N, S)) * x0
StartCols(S, x0) == IF IsScalar(x0) \/ Size(x0) = 1 THEN S ELSE Size(x0)
StartBroadcasts(S, x0) == IsScalar(x0) \/ Size(x0) = 1 \/ S = 1 \/ S = Size(x0)
StartArray(N, S, x0) ==
    LET c == StartCols(S, x0)
    IN  [shape |-> <<N, c>>,
         data |-> [k \in 1..(N * c) |-> Elem(x0, ((k - 1) % c) + 1)]]

(***************************************************************************)
(* SDE.simulate, one action per step of its control flow.                  *)
(***************************************************************************)
FreshSDE == [paths |-> << >>, eps |-> << >>, h |-> << >>, N |-> << >>]

IdleFrame == [x |-> Scalar(Zero), n |-> 0, it |-> 0,
              cur |-> Scalar(Zero), prev |-> Scalar(Zero)]

NoCall == [op |-> "none", err |-> "none", nsub |-> 0]

\* a draw that first rejects a parameter object with sigma <= 0
DrawError_validated(h, M, N, S) ==
    IF kind = "GBM" /\ ~Less(Zero, param.sigma) THEN "ValueError"
    ELSE IF Less(h, Zero) THEN "TypeError"
    ELSE IF N < 0 \/ M < 0 \/ S < 0 THEN "ValueError"
    ELSE "none"

\* the error np.random.normal raises for the arguments, "none" if it draws:
\* h**.5 of a negative Python float is a complex number, which is no scale
\* (TypeError); a negative dimension is no size (ValueError)
DrawError(h, M, N, S) ==
    IF Less(h, Zero) THEN "TypeError"
    ELSE IF N < 0 \/ M < 0 \/ S < 0 THEN "ValueError"
    ELSE "none"

\* lines 77-82: store h and N, draw eps, build x
SimulateCall(x0, h, M, N, S) ==
    /\ pc = "idle"
    /\ LET c == [op |-> "simulate", x0 |-> x0, h |-> h, M |-> M, N |-> N, S |-> S,
                 pre |-> sde, rng |-> rng, err |-> "none", nsub |-> 0,
                 returned |-> FALSE, ret |-> None]
           sde1 == [sde EXCEPT !.h = <<h>>, !.N = <<N>>]
           eps == normal(rng, <<N, M, S>>, Sqrt(h))
           sde2 == [sde1 EXCEPT !.eps = <<eps>>]
       IN  \/ /\ DrawError(h, M, N, S) # "none"
              /\ sde' = sde1
              /\ call' = [c EXCEPT !.err = DrawError(h, M, N, S)]
              /\ UNCHANGED <<rng, pc, frame>>
           \/ /\ DrawError(h, M, N, S) = "none"
              /\ ~StartBroadcasts(S, x0)
              /\ sde' = sde2
              /\ rng' = (rng + N * M * S) % Len(NormalStream)
              /\ call' = [c EXCEPT !.err = "ValueError"]
              /\ UNCHANGED <<pc, frame>>
           \/ /\ DrawError(h, M, N, S) = "none"
              /\ StartBroadcasts(S, x0)
              /\ sde' = sde2
              /\ rng' = (rng + N * M * S) % Len(NormalStream)
              /\ call' = c
              /\ frame' = [IdleFrame EXCEPT !.x = StartArray(N, S, x0)]
              /\ pc' = "for"
    /\ UNCHANGED <<kind, param, upd, mom, other>>

\* line 84: "for n in range(N-1)", and the entry into reduce(sim, eps[n], x[n])
ForN ==
    /\ pc = "for"
    /\ IF frame.n < call.N - 1
       THEN /\ pc' = "reduce"
            /\ frame' = [frame EXCEPT !.it = 0, !.cur = Row(frame.x, frame.n)]
       ELSE /\ pc' = "ret"
            /\ frame' = frame
    /\ UNCHANGED <<kind, param, sde, rng, call, upd, mom, other>>

\* lines 114-115: one "x = sim(x, e)" of reduce
ReduceStep ==
    /\ pc = "reduce"
    /\ frame.it < sde.eps[1].shape[2]
    /\ LET e == EpsSlice(sde.eps[1], frame.n, frame.it)
       IN  \/ /\ sim_raises(e)
              /\ call' = [call EXCEPT !.err = "ZeroDivisionError"]
              /\ pc' = "idle"
              /\ frame' = IdleFrame
           \/ /\ ~sim_raises(e)
              /\ call' = [call EXCEPT !.nsub = @ + 1]
              /\ frame' = [frame EXCEPT !.prev = frame.cur,
                                        !.cur = sim(frame.cur, e),
                                        !.it = @ + 1]
              /\ pc' = "reduce"
    /\ UNCHANGED <<kind, param, sde, rng, upd, mom, other>>

\* line 116 and the assignment of line 85: "x[n+1] = " what reduce returns
RecordRow ==
    /\ pc = "reduce"
    /\ frame.it = sde.eps[1].shape[2]
    /\ frame' = [frame EXCEPT !.x = SetRow(frame.x, frame.n + 1, frame.cur),
                              !.n = @ + 1]
    /\ pc' = "for"
    /\ UNCHANGED <<kind, param, sde, rng, call, upd, mom, other>>

\* lines 87-90: store the paths on the instance; the method returns None
SimulateReturn ==
    /\ pc = "ret"
    /\ sde' = [sde EXCEPT !.paths =
                  IF call.S > 1 THEN <<frame.x>> ELSE <<Flatten(frame.x)>>]
    /\ call' = [call EXCEPT !.returned = TRUE, !.ret = None]
    /\ frame' = IdleFrame
    /\ pc' = "idle"
    /\ UNCHANGED <<kind, param, rng, upd, mom, other>>

(***************************************************************************)
(* The same method on the second instance: self is the record other, and   *)
(* numpy's generator is the one the first instance draws from.             *)
(***************************************************************************)
\* the parameter object the second instance is constructed with
OtherParam(knd) ==
    IF knd = "GBM" THEN GBMparam_init(One, Rat(1, 2))
    ELSE VasicekParam_init(One, One, Rat(1, 2))

\* sim on the second instance, reading the interval length of the first
other_sim_shared_h(z, error) ==
    sim_value(kind, other.theta_true,
              IF sde.h = None THEN other.sde.h[1] ELSE sde.h[1], z, error)

\* sim on the second instance: it reads its own self.h and self.theta_true
other_sim(z, error) == sim_value(kind, other.theta_true, other.sde.h[1], z, error)

\* lines 77-82
OtherSimulateCall(x0, h, M, N, S) ==
    /\ other.pc = "idle"
    /\ LET c == [op |-> "simulate", x0 |-> x0, h |-> h, M |-> M, N |-> N, S |-> S,
                 pre |-> other.sde, rng |-> rng, err |-> "none", nsub |-> 0,
                 returned |-> FALSE, ret |-> None]
           sde1 == [other.sde EXCEPT !.h = <<h>>, !.N = <<N>>]
           eps == normal(rng, <<N, M, S>>, Sqrt(h))
           sde2 == [sde1 EXCEPT !.eps = <<eps>>]
       IN  \/ /\ DrawError(h, M, N, S) # "none"
              /\ other' = [other EXCEPT !.sde = sde1,
                                        !.call = [c EXCEPT !.err = DrawError(h, M, N, S)]]
              /\ UNCHANGED rng
           \/ /\ DrawError(h, M, N, S) = "none"
              /\ ~StartBroadcasts(S, x0)
              /\ other' = [other EXCEPT !.sde = sde2,
                                        !.call = [c EXCEPT !.err = "ValueError"]]
              /\ rng' = (rng + N * M * S) % Len(NormalStream)
           \/ /\ DrawError(h, M, N, S) = "none"
              /\ StartBroadcasts(S, x0)
              /\ other' = [other EXCEPT
                              !.sde = sde2, !.call = c, !.pc = "for",
                              !.frame = [IdleFrame EXCEPT !.x = StartArray(N, S, x0)]]
              /\ rng' = (rng + N * M * S) % Len(NormalStream)
    /\ UNCHANGED <<kind, param, sde, pc, frame, call, upd, mom>>

\* line 84
OtherForN ==
    /\ other.pc = "for"
    /\ other' = IF other.frame.n < other.call.N - 1
                THEN [other EXCEPT !.pc = "reduce",
                                   !.frame = [@ EXCEPT !.it = 0,
                                       !.cur = Row(other.frame.x, other.frame.n)]]
                ELSE [other EXCEPT !.pc = "ret"]
    /\ UNCHANGED <<kind, param, sde, rng, pc, frame, call, upd, mom>>

\* lines 114-115
OtherReduceStep ==
    /\ other.pc = "reduce"
    /\ other.frame.it < other.sde.eps[1].shape[2]
    /\ LET e == EpsSlice(other.sde.eps[1], other.frame.n, other.frame.it)
       IN  other' =
             IF sim_raises(e)
             THEN [other EXCEPT !.call = [@ EXCEPT !.err = "ZeroDivisionError"],
                                !.pc = "idle", !.frame = IdleFrame]
             ELSE [other EXCEPT !.call = [@ EXCEPT !.nsub = @ + 1],
                                !.frame = [@ EXCEPT !.prev = other.frame.cur,
                                                    !.cur = other_sim(other.frame.cur, e),
                                                    !.it = @ + 1]]
    /\ UNCHANGED <<kind, param, sde, rng, pc, frame, call, upd, mom>>

\* line 116 and the assignment of line 85
OtherRecordRow ==
    /\ other.pc = "reduce"
    /\ other.frame.it = other.sde.eps[1].shape[2]
    /\ other' = [other EXCEPT !.pc = "for",
                              !.frame = [@ EXCEPT !.x = SetRow(@, other.frame.n + 1, other.frame.cur),
                                                  !.n = @ + 1]]
    /\ UNCHANGED <<kind, param, sde, rng, pc, frame, call, upd, mom>>

\* lines 87-90
OtherSimulateReturn ==
    /\ other.pc = "ret"
    /\ other' = [other EXCEPT
                    !.sde = [@ EXCEPT !.paths =
                               IF other.call.S > 1 THEN <<other.frame.x>>
                               ELSE <<Flatten(other.frame.x)>>],
                    !.call = [@ EXCEPT !.returned = TRUE, !.ret = None],
                    !.frame = IdleFrame,
                    !.pc = "idle"]
    /\ UNCHANGED <<kind, param, sde, rng, pc, frame, call, upd, mom>>

OtherSteps == OtherForN \/ OtherReduceStep \/ OtherRecordRow \/ OtherSimulateReturn

(***************************************************************************)
(* The moment builder of GBM (gbm.py).  Vectors are sequences of numbers,  *)
(* matrices sequences of rows.  The parameter vector theta is a sequence   *)
(* of arrays, so that an item of theta may itself be an array (a row of a  *)
(* two-dimensional theta) and not a scalar.                                *)
(***************************************************************************)
MaxObs == 5
MaxLag == 3

\* the parameter class gbm.py defines for its own use
gbm_GBMparam(mean, sigma) == [mean |-> mean, sigma |-> sigma, theta |-> <<mean, sigma>>]

\* GBM.drift and GBM.diff on a gbm_GBMparam whose fields are arrays
gbm_drift(x, theta) ==
    Map2("-", theta.mean, Map2("/", Map2("*", theta.sigma, theta.sigma), Scalar(Num(2))))
gbm_diff(x, theta) == theta.sigma

\* mean and standard deviation of the increment over one interval, the
\* interval being the instance attribute "interval" the caller has set: for
\* the log of a GBM these are the drift times the interval and the
\* diffusion times its square root
exact_loc(interval, x, theta) == Map2("*", gbm_drift(x, theta), Scalar(interval))
exact_scale(interval, x, theta) == Map2("*", gbm_diff(x, theta), Scalar(Sqrt(interval)))

\* isinstance(v, float): a Python or numpy float and no array
IsFloat(v) == IsScalar(v)

\* np.array([v, 0], dtype=float), the set of its outcomes: the array for a
\* float v, ValueError for an array v of several items (the items have no
\* common shape); for an array v of one item numpy raises the same
\* ValueError or converts v to its item, depending on the numpy version
ArrayOfPair(v) ==
    IF IsScalar(v) THEN {[err |-> "none", val |-> <<v.data[1], Zero>>]}
    ELSE IF Size(v) = 1
    THEN {[err |-> "ValueError", val |-> << >>],
          [err |-> "none", val |-> <<v.data[1], Zero>>]}
    ELSE {[err |-> "ValueError", val |-> << >>]}

\* the element of a one-element set: the values the set is built from are
\* computed once
Only(S) == CHOOSE v \in S : TRUE

\* betamat raising TypeError for a location that is no float
betamat_typeerror(interval, theta) ==
    IF Len(theta) < 2 THEN [err |-> "IndexError", val |-> << >>]
    ELSE LET loc == exact_loc(interval, Scalar(Zero), gbm_GBMparam(theta[1], theta[2]))
         IN  IF ~IsFloat(loc) THEN [err |-> "TypeError", val |-> << >>]
             ELSE Only(ArrayOfPair(loc))

\* betamat(theta): the outcome [err, val]
betamat(interval, theta) ==
    IF Len(theta) < 2 THEN [err |-> "IndexError", val |-> << >>]
    ELSE LET loc == exact_loc(interval, Scalar(Zero), gbm_GBMparam(theta[1], theta[2]))
         IN  IF ~IsFloat(loc) THEN [err |-> "ValueError", val |-> << >>]
             ELSE Only(ArrayOfPair(loc))

\* gammamat(theta): the set of its outcomes [err, val], a single one when
\* the location is a float
gammamat(interval, theta) ==
    IF Len(theta) < 2 THEN {[err |-> "IndexError", val |-> << >>]}
    ELSE LET th == gbm_GBMparam(theta[1], theta[2])
             loc == exact_loc(interval, Scalar(Zero), th)
             scale == exact_scale(interval, Scalar(Zero), th)
         IN  IF ~IsFloat(scale) THEN {[err |-> "ValueError", val |-> << >>]}
             ELSE ArrayOfPair(Map2("+", Map2("*", loc, loc), Map2("*", scale, scale)))

\* theta with item j moved by k steps of length one
Shift(theta, j, k) == [theta EXCEPT ![j] = Scalar(Add(@.data[1], Num(k)))]

\* the extrapolated central difference of the values of a function at
\* x-2, x-1, x+1, x+2
Stencil(m2, m1, p1, p2) ==
    Div(Add(Sub(m2, p2), Mul(Num(8), Sub(p1, m1))), Num(12))

\* nd.Jacobian(self.betamat)(theta): central differences with Richardson
\* extrapolation, row i the coefficient, column j the parameter
dbetamat(interval, theta) ==
    [i \in 1..2 |-> [j \in 1..Len(theta) |->
        Stencil(betamat(interval, Shift(theta, j, -2)).val[i],
                betamat(interval, Shift(theta, j, -1)).val[i],
                betamat(interval, Shift(theta, j, 1)).val[i],
                betamat(interval, Shift(theta, j, 2)).val[i])]]

dgammamat(interval, theta) ==
    [i \in 1..2 |-> [j \in 1..Len(theta) |->
        Stencil(Only(gammamat(interval, Shift(theta, j, -2))).val[i],
                Only(gammamat(interval, Shift(theta, j, -1))).val[i],
                Only(gammamat(interval, Shift(theta, j, 1))).val[i],
                Only(gammamat(interval, Shift(theta, j, 2))).val[i])]]

\* the closed form without the term of the squared scale
dgammamat_exact_noscale(interval, theta) ==
    IF Len(theta) # 2 THEN [err |-> "ValueError", val |-> << >>]
    ELSE LET mean == theta[1].data[1]
             sigma == theta[2].data[1]
             dr == Sub(mean, Div(Square(sigma), Num(2)))
         IN  [err |-> "none",
              val |-> <<<<Mul(Mul(Num(2), Square(interval)), dr),
                          Neg(Mul(Mul(Mul(Num(2), sigma), Square(interval)), dr))>>,
                        <<Zero, Zero>>>>]

\* lines 198-199: "mean, sigma = theta" raises ValueError unless theta has
\* two items
dbetamat_exact(interval, theta) ==
    IF Len(theta) # 2 THEN [err |-> "ValueError", val |-> << >>]
    ELSE LET sigma == theta[2].data[1]
         IN  [err |-> "none",
              val |-> <<<<interval, Neg(Mul(sigma, interval))>>, <<Zero, Zero>>>>]

\* lines 215-219
dgammamat_exact(interval, theta) ==
    IF Len(theta) # 2 THEN [err |-> "ValueError", val |-> << >>]
    ELSE LET mean == theta[1].data[1]
             sigma == theta[2].data[1]
             dr == Sub(mean, Div(Square(sigma), Num(2)))
         IN  [err |-> "none",
              val |-> <<<<Mul(Mul(Num(2), Square(interval)), dr),
                          Sub(Mul(Mul(Num(2), sigma), interval),
                              Mul(Mul(Mul(Num(2), sigma), Square(interval)), dr))>>,
                        <<Zero, Zero>>>>]

\* statsmodels' lagmat(x, maxlag) for a one-dimensional x: row s holds
\* x[s-1], ..., x[s-maxlag], zero where the index falls before the series;
\* it raises ValueError unless maxlag < len(x)
lagmat_raises(x, maxlag) == maxlag >= Len(x)
lagmat(x, maxlag) ==
    [s \in 1..Len(x) |-> [k \in 1..maxlag |-> IF s - k >= 1 THEN x[s - k] ELSE Zero]]

RECURSIVE SumSeq(_)
SumSeq(v) == IF v = << >> THEN Zero ELSE Add(Head(v), SumSeq(Tail(v)))

\* u.dot(v) of two vectors, v.dot(J) of a vector and a matrix, v.mean()
Dot(u, v) == SumSeq([k \in 1..Len(u) |-> Mul(u[k], v[k])])
VecMat(v, J) == [j \in 1..Len(J[1]) |-> Dot(v, [i \in 1..Len(J) |-> J[i][j]])]
MeanOf(v) == Div(SumSeq(v), Num(Len(v)))

\* m.T of a matrix with at least one row
Transpose(m) == [j \in 1..Len(m[1]) |-> [i \in 1..Len(m) |-> m[i][j]]]

\* np.vstack of a list of matrices
RECURSIVE Vstack(_)
Vstack(blocks) == IF blocks = << >> THEN << >> ELSE Head(blocks) \o Vstack(Tail(blocks))

datalag == 1
instrlag == 2

\* the gradient block with the second moment's row first
dtheta_swapped(meandata, db, dg) ==
    Only({<<[j \in 1..Len(g) |-> Neg(g[j])], [j \in 1..Len(b) |-> Neg(b[j])]>> :
             b \in {VecMat(meandata, db)}, g \in {VecMat(meandata, dg)}})

\* lines 256-257: -np.vstack([meandata.dot(dbetamat), meandata.dot(dgammamat)])
dtheta(meandata, db, dg) ==
    Only({<<[j \in 1..Len(b) |-> Neg(b[j])], [j \in 1..Len(g) |-> Neg(g[j])]>> :
             b \in {VecMat(meandata, db)}, g \in {VecMat(meandata, dg)}})

\* lines 241-243: the intercept and the lag of the data, one row for each
\* of the nobs = len(data) - datalag observations after the first
Regressors(data) ==
    LET lagdata == SubSeq(lagmat(data, datalag), datalag + 1, Len(data))
    IN  [t \in 1..Len(lagdata) |-> <<One>> \o lagdata[t]]

\* lines 245-247: the residual of the level and of the squared level
Residuals(data, datamat, beta, gamma) ==
    LET dep == SubSeq(data, datalag + 1, Len(data))
    IN  <<[t \in 1..Len(datamat) |-> Sub(dep[t], Dot(datamat[t], beta))],
          [t \in 1..Len(datamat) |->
              Sub(Mul(dep[t], dep[t]), Dot(datamat[t], gamma))]>>

\* the instruments taken from the lags of data[datalag:], the dependent values
Instruments_unlagged(data) ==
    LET lags == lagmat(SubSeq(data, datalag + 1, Len(data)), instrlag)
    IN  Transpose([t \in 1..Len(lags) |-> <<One>> \o lags[t]])

\* lines 249-250: the intercept and instrlag lags of data[:-datalag], one
\* row for each instrument
Instruments(data) ==
    LET lags == lagmat(SubSeq(data, 1, Len(data) - datalag), instrlag)
    IN  Transpose([t \in 1..Len(lags) |-> <<One>> \o lags[t]])

\* lines 252-254, 260, 263: errors * instr appended for each instrument,
\* stacked and transposed
Moments(errors, instruments) ==
    Transpose(Vstack([i \in 1..Len(instruments) |->
        [r \in 1..Len(errors) |-> [t \in 1..Len(errors[r]) |->
            Mul(errors[r][t], instruments[i][t])]]]))

\* lines 255-258, 261: the block dtheta appended for each instrument, stacked
Gradient(datamat, instruments, db, dg) ==
    Vstack([i \in 1..Len(instruments) |->
        Only({dtheta(meandata, db, dg) :
                 meandata \in {[c \in 1..Len(datamat[1]) |->
                     MeanOf([t \in 1..Len(datamat) |->
                                Mul(datamat[t][c], instruments[i][t])])]}})])

MomFail(err) == [err |-> err, moments |-> << >>, gradient |-> << >>]

\* momcond(theta, data): the outcome [err, moments, gradient]
momcond(interval, theta, data) ==
    IF lagmat_raises(data, datalag) THEN MomFail("ValueError")
    ELSE Only({
        IF b.err # "none" THEN MomFail(b.err)
        ELSE IF g.err # "none" THEN MomFail(g.err)
        ELSE IF lagmat_raises(SubSeq(data, 1, Len(data) - datalag), instrlag)
        THEN MomFail("ValueError")
        ELSE Only({[err |-> "none",
                    moments |-> Moments(errors, instruments),
                    gradient |-> Gradient(datamat, instruments, db, dg)] :
                      errors \in {Residuals(data, datamat, b.val, g.val)},
                      instruments \in {Instruments(data)},
                      db \in {dbetamat(interval, theta)},
                      dg \in {dgammamat(interval, theta)}}) :
            datamat \in {Regressors(data)},
            b \in {betamat(interval, theta)},
            g \in gammamat(interval, theta)})

\* gbm.betamat(theta) on an instance whose attribute interval is set
BetamatCall(interval, theta) ==
    /\ pc = "idle" /\ kind = "GBM"
    /\ LET r == betamat(interval, theta)
       IN  mom' = [op |-> "betamat", interval |-> interval, theta |-> theta,
                   err |-> r.err, coef |-> r.val]
    /\ UNCHANGED <<kind, param, sde, rng, pc, frame, call, upd, other>>

\* gbm.gammamat(theta)
GammamatCall(interval, theta) ==
    /\ pc = "idle" /\ kind = "GBM"
    /\ \E r \in gammamat(interval, theta) :
          mom' = [op |-> "gammamat", interval |-> interval, theta |-> theta,
                  err |-> r.err, coef |-> r.val]
    /\ UNCHANGED <<kind, param, sde, rng, pc, frame, call, upd, other>>

\* gbm.momcond(theta, data), or gbm.momcond(theta, data, instrlag=kw[1])
\* when the caller names an instrument lag: the signature of line 221 has
\* no such parameter and Python raises TypeError before the body runs
MomcondCall(interval, theta, data, kw) ==
    /\ pc = "idle" /\ kind = "GBM"
    /\ LET r == IF kw # None THEN MomFail("TypeError")
                ELSE momcond(interval, theta, data)
       IN  mom' = [op |-> "momcond", interval |-> interval, theta |-> theta,
                   data |-> data, kw |-> kw, err |-> r.err,
                   moments |-> r.moments, gradient |-> r.gradient]
    /\ UNCHANGED <<kind, param, sde, rng, pc, frame, call, upd, other>>

\* the four Jacobians of the moment coefficients at one parameter vector of
\* floats: gbm.dbetamat(theta), gbm.dgammamat(theta) and their closed forms
JacobianCall(interval, theta) ==
    /\ pc = "idle" /\ kind = "GBM"
    /\ mom' = [op |-> "jacobian", interval |-> interval, theta |-> theta,
               err |-> "none",
               dbeta |-> dbetamat(interval, theta),
               dgamma |-> dgammamat(interval, theta),
               dbeta_exact |-> dbetamat_exact(interval, theta).val,
               dgamma_exact |-> dgammamat_exact(interval, theta).val]
    /\ UNCHANGED <<kind, param, sde, rng, pc, frame, call, upd, other>>

(***************************************************************************)
(* The arguments callers pass to simulate.                                 *)
(***************************************************************************)
Starts == {Scalar(One), Vector(<<One, One>>)}
Intervals == {One, Num(4)}

ValidArgs ==
    {<<x0, h, M, N, S>> : x0 \in Starts, h \in Intervals,
                          M \in 1..MaxM, N \in 1..MaxN, S \in 1..MaxS}

\* one argument at a time zero or negative, the others as in a plain call
BadArgs ==
    {<<Scalar(One), h, 1, 2, 1>> : h \in {Zero, Num(-1)}}
    \cup {<<Scalar(One), One, M, 2, 1>> : M \in {0, -1}}
    \cup {<<Scalar(One), One, 1, N, 1>> : N \in {0, -1}}
    \cup {<<Scalar(One), One, 1, N, S>> : N \in {1, 2}, S \in {0, -1}}

CallArgs == ValidArgs \cup BadArgs

Init ==
    /\ kind \in {"GBM", "Vasicek"}
    /\ param \in (IF kind = "GBM" THEN GBMparams ELSE VasicekParams)
    /\ sde = FreshSDE
    /\ rng \in 0..(Len(NormalStream) - 1)
    /\ pc = "idle"
    /\ frame = IdleFrame
    /\ call = NoCall
    /\ upd = NoUpd
    /\ mom = NoMom
    /\ other = [theta_true |-> OtherParam(kind), sde |-> FreshSDE, pc |-> "idle",
                frame |-> IdleFrame, call |-> NoCall]

SimulateSteps == ForN \/ ReduceStep \/ RecordRow \/ SimulateReturn

\* a simulate call on a freshly constructed simulator
Next ==
    \/ \E a \in CallArgs :
          call.op = "none" /\ SimulateCall(a[1], a[2], a[3], a[4], a[5])
    \/ SimulateSteps

Spec == Init /\ [][Next]_vars

\* simulate calls one after another on one simulator, among them a call
\* that raises after it has stored h and N
ReplayArgs ==
    {<<Scalar(One), h, M, N, S>> : h \in Intervals, M \in {1, MaxM},
                                   N \in {2, MaxN}, S \in {1, MaxS}}
    \cup {<<Scalar(One), One, 1, -1, 1>>}

NextReplay ==
    \/ \E a \in ReplayArgs : SimulateCall(a[1], a[2], a[3], a[4], a[5])
    \/ SimulateSteps

SpecReplay == Init /\ [][NextReplay]_vars

(***************************************************************************)
(* The other operations of the parameter classes.  GBMparam                *)
(* (param_gbm.py) defines is_valid and from_theta; VasicekParam            *)
(* (vasicek.py) derives from object and defines neither, so the lookup of  *)
(* either name on it raises AttributeError.                                *)
(***************************************************************************)
GBMparam_is_valid(p) == Less(Zero, p.sigma)

\* cls(mean=theta[0], sigma=theta[1]) followed by update_ajd(): theta is
\* read by index, IndexError when it has fewer than two items
GBMparam_from_theta(theta) ==
    IF Len(theta) >= 2
    THEN [err |-> "none",
          obj |-> <<GBMparam_update_ajd(GBMparam_init(theta[1], theta[2]))>>]
    ELSE [err |-> "IndexError", obj |-> None]

VasicekParam_from_theta(theta) == [err |-> "AttributeError", obj |-> None]

\* the instances the constructors build from their default arguments
GBMparam_default == GBMparam_init(Zero, Rat(1, 5))
VasicekParam_default == VasicekParam_init(Rat(1, 2), Rat(3, 2), Rat(1, 10))

get_theta(knd, p) ==
    IF knd = "GBM" THEN GBMparam_get_theta(p) ELSE VasicekParam_get_theta(p)

\* "param = cls.from_theta(theta)": the caller's name is bound to the new
\* instance when the call returns and keeps its object when the call raises
FromTheta(theta) ==
    /\ pc = "idle"
    /\ LET r == IF kind = "GBM" THEN GBMparam_from_theta(theta)
                ELSE VasicekParam_from_theta(theta)
       IN  /\ param' = IF r.err = "none" THEN r.obj[1] ELSE param
           /\ upd' = [op |-> "from_theta", theta |-> theta, err |-> r.err,
                      pre |-> param]
    /\ UNCHANGED <<kind, sde, rng, pc, frame, call, mom, other>>

\* param.update(param.get_theta())
UpdateOwn == Update(get_theta(kind, param))

\* param.is_valid()
IsValid ==
    /\ pc = "idle"
    /\ upd' = IF kind = "GBM"
              THEN [op |-> "is_valid", theta |-> << >>, err |-> "none",
                    pre |-> param, ret |-> <<GBMparam_is_valid(param)>>]
              ELSE [op |-> "is_valid", theta |-> << >>, err |-> "AttributeError",
                    pre |-> param, ret |-> None]
    /\ UNCHANGED <<kind, param, sde, rng, pc, frame, call, mom, other>>

\* the states the drift and the diffusion are evaluated at
States == {One, Num(2), Rat(-1, 2)}

\* model.drift(x, param) and model.diff(x, param) at a scalar state x
EvalDrift(x) ==
    /\ pc = "idle"
    /\ upd' = [op |-> "drift", theta |-> << >>, err |-> "none", pre |-> param,
               x |-> x,
               drift |-> drift(kind, Scalar(x), param),
               diff |-> diff(kind, Scalar(x), param)]
    /\ UNCHANGED <<kind, param, sde, rng, pc, frame, call, mom, other>>

(***************************************************************************)
(* The arguments callers pass to the moment builder.                       *)
(***************************************************************************)
\* the parameters of the tests, two with a volatility that is not positive,
\* and three whose first item, or both items, are arrays
MomThetas ==
    {<<Scalar(Rat(3, 2)), Scalar(Rat(1, 5))>>,
     <<Vector(<<Rat(3, 2)>>), Scalar(Rat(1, 5))>>,
     <<Scalar(One), Scalar(Zero)>>,
     <<Scalar(Rat(1, 2)), Scalar(Num(-1))>>,
     <<Vector(<<One, Rat(3, 2)>>), Scalar(Rat(1, 5))>>,
     <<Vector(<<One, Rat(3, 2)>>), Vector(<<Rat(1, 5), Rat(1, 5)>>)>>}

MomIntervals == {One, Rat(1, 4)}

\* parameter vectors of floats for the Jacobians: those above, and more of
\* the valid domain
JacThetas ==
    {theta \in MomThetas : \A k \in 1..Len(theta) : IsScalar(theta[k])}
    \cup {<<Scalar(Rat(1, 2)), Scalar(One)>>,
          <<Scalar(Num(-1)), Scalar(Rat(1, 2))>>,
          <<Scalar(Zero), Scalar(Num(2))>>,
          <<Scalar(Num(2)), Scalar(Rat(3, 2))>>}

\* data series of 2 to MaxObs points
Series ==
    {[t \in 1..n |-> Num(t)] : n \in 2..MaxObs}
    \cup {[t \in 1..n |-> Num(t * t - 2)] : n \in 2..MaxObs}
    \cup {[t \in 1..n |-> One] : n \in 2..MaxObs}

MomArgs ==
    {<<h, theta, data, None>> : h \in MomIntervals, theta \in MomThetas, data \in Series}
    \cup {<<One, <<Scalar(Rat(3, 2)), Scalar(Rat(1, 5))>>, data, <<L>>>> :
              data \in Series, L \in 0..MaxLag}

MomSimArgs == {<<Scalar(One), One, 1, 2, 1>>, <<Scalar(One), Num(4), MaxM, MaxN, 2>>}

\* the parameter vector of the instance's own parameter object
OwnTheta == <<Scalar(param.mean), Scalar(param.sigma)>>

\* one call of the moment builder on a fresh instance, and one simulate call,
\* either on the fresh instance or after momcond was called with the
\* instance's own parameters
NextMom ==
    \/ \E h \in MomIntervals, theta \in MomThetas :
          mom.op = "none" /\ call.op = "none" /\ BetamatCall(h, theta)
    \/ \E h \in MomIntervals, theta \in MomThetas :
          mom.op = "none" /\ call.op = "none" /\ GammamatCall(h, theta)
    \/ \E a \in MomArgs :
          mom.op = "none" /\ call.op = "none" /\ MomcondCall(a[1], a[2], a[3], a[4])
    \/ \E h \in MomIntervals, theta \in JacThetas :
          mom.op = "none" /\ call.op = "none" /\ JacobianCall(h, theta)
    \/ \E a \in MomSimArgs :
          /\ call.op = "none"
          /\ mom.op = "none" \/ (mom.op = "momcond" /\ mom.theta = OwnTheta)
          /\ SimulateCall(a[1], a[2], a[3], a[4], a[5])
    \/ SimulateSteps

SpecMom == Init /\ [][NextMom]_vars

\* a simulate call on each of two instances, the steps of the two calls
\* interleaved in every order
TwoArgs == {<<Scalar(One), One, 1, 2, 1>>, <<Scalar(One), Num(4), MaxM, MaxN, 2>>}

NextTwo ==
    \/ \E a \in TwoArgs :
          call.op = "none" /\ SimulateCall(a[1], a[2], a[3], a[4], a[5])
    \/ SimulateSteps
    \/ \E a \in TwoArgs :
          other.call.op = "none" /\ OtherSimulateCall(a[1], a[2], a[3], a[4], a[5])
    \/ OtherSteps

SpecTwo == Init /\ [][NextTwo]_vars

\* operations on the parameter object
NextParam ==
    \/ \E theta \in Thetas : Update(theta)
    \/ \E theta \in Thetas : FromTheta(theta)
    \/ UpdateOwn
    \/ IsValid
    \/ \E x \in States : EvalDrift(x)

SpecParam == Init /\ [][NextParam]_vars

(***************************************************************************)
(* Definitions shared by the properties.                                   *)
(***************************************************************************)
nvars == 1

Called == call.op = "simulate"
Returned == Called /\ call.returned
PositiveArgs == Less(Zero, call.h) /\ call.M > 0 /\ call.N > 0 /\ call.S > 0
StartMatches == IsScalar(call.x0) \/ Size(call.x0) = nvars

\* a value assigned to a row of c columns
RowOf(v, c) == Vector([j \in 1..c |-> Elem(v, j)])

\* sqrt(h/M), written sqrt(h)/sqrt(M)
SqrtQuot(h, M) == Div(Sqrt(h), Sqrt(Num(M)))

\* the increment the specification gives for one sub-step of length h/M:
\* drift(z)*(h/M) + diffusion(z)*sqrt(h/M)*error
EulerIncrement(knd, theta, h, M, z, error) ==
    Map2("+",
         Map2("*", drift(knd, z, theta), Scalar(Div(h, Num(M)))),
         Map2("*", Map2("*", diff(knd, z, theta), Scalar(SqrtQuot(h, M))), error))

\* the error slice the last sub-step of the running reduce consumed
LastSlice == EpsSlice(sde.eps[1], frame.n, frame.it - 1)

\* reduce(sim, eps[n], z) from slice m on, for interval length h
RECURSIVE ReduceOf(_, _, _, _, _, _, _)
ReduceOf(knd, theta, h, eps, n, m, z) ==
    IF m >= eps.shape[2] THEN z
    ELSE ReduceOf(knd, theta, h, eps, n, m + 1,
                  sim_value(knd, theta, h, z, EpsSlice(eps, n, m)))

\* the rows of the history for the arguments and the draws eps
RECURSIVE RowAt(_, _, _, _, _, _, _)
RowAt(knd, theta, h, eps, x0, S, n) ==
    IF n = 0 THEN Row(StartArray(1, S, x0), 0)
    ELSE RowOf(ReduceOf(knd, theta, h, eps, n - 1, 0,
                        RowAt(knd, theta, h, eps, x0, S, n - 1)),
               StartCols(S, x0))

RECURSIVE ConcatRows(_, _, _, _, _, _, _)
ConcatRows(knd, theta, h, eps, x0, S, n) ==
    IF n = 0 THEN << >>
    ELSE ConcatRows(knd, theta, h, eps, x0, S, n - 1)
         \o RowAt(knd, theta, h, eps, x0, S, n - 1).data

\* the path history as a function of the arguments, the parameters and the draws
PathsOf(knd, theta, x0, h, M, N, S, eps) ==
    LET d == ConcatRows(knd, theta, h, eps, x0, S, N)
    IN  IF S > 1 THEN [shape |-> <<N, StartCols(S, x0)>>, data |-> d]
        ELSE [shape |-> <<Len(d)>>, data |-> d]

\* row n of the history stored by the last call
HistoryRow(n) ==
    LET c == StartCols(call.S, call.x0)
    IN  Vector([j \in 1..c |-> sde.paths[1].data[n * c + j]])

(***************************************************************************)
(* C1: for valid (h, M, N, S) and a start value of the model's dimension   *)
(* the path tensor simulate yields has shape (N, 2S, nvars).               *)
(***************************************************************************)
C1_PathShape ==
    (Returned /\ PositiveArgs /\ StartMatches)
        => sde.paths[1].shape = <<call.N, 2 * call.S, nvars>>

(***************************************************************************)
(* C2: every sub-step replaces the state by the state plus the Euler       *)
(* increment drift*(h/M) + diffusion*sqrt(h/M)*error[step].                *)
(***************************************************************************)
C2_StateCarried ==
    (pc = "reduce" /\ frame.it > 0 /\ PositiveArgs /\ StartMatches)
        => frame.cur = Map2("+", frame.prev,
                            EulerIncrement(kind, param, call.h, call.M,
                                           frame.prev, LastSlice))

C4_StepLength ==
    (pc = "reduce" /\ frame.it > 0 /\ PositiveArgs
        /\ frame.prev.shape = LastSlice.shape)
        => frame.cur = EulerIncrement(kind, param, call.h, call.M,
                                      frame.prev, LastSlice)

(***************************************************************************)
(* C5: the 2S columns come in antithetic pairs: column i+S is driven by    *)
(* the negated draws of column i (and with no diffusion all are equal).    *)
(***************************************************************************)
Negated(eps) == [eps EXCEPT !.data = [k \in 1..Len(eps.data) |-> Neg(eps.data[k])]]

AntitheticRow(n) ==
    RowAt(kind, param, call.h, sde.eps[1], call.x0, call.S, n).data
    \o RowAt(kind, param, call.h, Negated(sde.eps[1]), call.x0, call.S, n).data

C5_AntitheticPairs ==
    (Returned /\ PositiveArgs /\ StartMatches)
        => LET P == sde.paths[1]
               w == 2 * call.S
           IN  /\ P.shape = <<call.N, w, nvars>>
               /\ \A n \in 0..(call.N - 1) :
                     SubSeq(P.data, n * w + 1, (n + 1) * w) = AntitheticRow(n)

(***************************************************************************)
(* C6: a start vector whose length differs from the number of variables    *)
(* makes simulate raise ValueError for every S >= 1; the vector is never   *)
(* broadcast into the path array.                                          *)
(***************************************************************************)
C6_StartLengthChecked ==
    (Called /\ ~StartMatches /\ call.S >= 1 /\ call.M >= 1 /\ call.N >= 1)
        => call.err = "ValueError"

(***************************************************************************)
(* C7: simulate with a non-positive h, M, N or S never completes: it fails *)
(* with an error instead of storing a degenerate history.                  *)
(***************************************************************************)
C7_FailFast == (Called /\ ~PositiveArgs) => ~call.returned

(***************************************************************************)
(* C8: simulate returns the path tensor and leaves every field of the      *)
(* instance as it was before the call.                                     *)
(***************************************************************************)
C8_ReturnsNotStores ==
    (Returned /\ PositiveArgs) => (call.ret # None /\ sde = call.pre)

(***************************************************************************)
(* C9: the history a call produces is a function of its arguments, the     *)
(* parameter object and its own draws, whatever calls came before.         *)
(***************************************************************************)
C9_Replay ==
    Returned
        => sde.paths =
              <<PathsOf(kind, param, call.x0, call.h, call.M, call.N, call.S,
                        normal(call.rng, <<call.N, call.M, call.S>>, Sqrt(call.h)))>>

C9_Witness ==
    /\ Returned
    /\ call.pre.paths # None
    /\ call.pre.h # <<call.h>>
    /\ call.pre.N # <<call.N>>
    /\ call.pre.eps[1].shape[2] # call.M
    /\ call.pre.eps[1].shape[3] # call.S
    /\ call.N >= 3 /\ call.M >= 2

(***************************************************************************)
(* C10: update(theta) raises ValueError exactly when the length of theta   *)
(* differs from the parameter count (GBM 2, Vasicek 3), shorter or longer; *)
(* a vector of the right length is assigned positionally.                  *)
(***************************************************************************)
C10_UpdateLength ==
    upd.op = "update"
        => LET k == IF kind = "GBM" THEN 2 ELSE 3
           IN  /\ upd.err = (IF Len(upd.theta) = k THEN "none" ELSE "ValueError")
               /\ (Len(upd.theta) = k /\ kind = "GBM")
                     => (param.mean = upd.theta[1] /\ param.sigma = upd.theta[2])
               /\ (Len(upd.theta) = k /\ kind = "Vasicek")
                     => (/\ param.mean = upd.theta[1]
                         /\ param.kappa = upd.theta[2]
                         /\ param.eta = upd.theta[3])

C10_Witness ==
    /\ upd.op = "update" /\ kind = "GBM"
    /\ Len(upd.theta) > 2 /\ upd.err = "ValueError"
    /\ param = upd.pre

(***************************************************************************)
(* Definitions shared by the properties of the parameter classes.          *)
(***************************************************************************)
nparams == IF kind = "GBM" THEN 2 ELSE 3

\* the named scalars of a parameter object
Scalars(p) == get_theta(kind, p)

\* the four AJD coefficients of a parameter object
Ajd(p) == <<p.mat_k0, p.mat_k1, p.mat_h0, p.mat_h1>>

(***************************************************************************)
(* C11: for GBM and Vasicek and every theta of the model's length,         *)
(* from_theta(theta).get_theta() equals theta, and after update(theta) on  *)
(* an existing instance get_theta() equals theta.                          *)
(***************************************************************************)
C11_ThetaRoundTrip ==
    ((upd.op = "from_theta" \/ upd.op = "update") /\ Len(upd.theta) = nparams)
        => (upd.err = "none" /\ get_theta(kind, param) = upd.theta)

(***************************************************************************)
(* C12: p.update(p.get_theta()) changes nothing, whatever updates came     *)
(* before: the named scalars and mat_k0, mat_k1, mat_h0, mat_h1 are after  *)
(* the call what they were before it.                                      *)
(***************************************************************************)
C12_UpdateOwnTheta ==
    (upd.op = "update" /\ upd.theta = get_theta(kind, upd.pre))
        => /\ upd.err = "none"
           /\ Scalars(param) = Scalars(upd.pre)
           /\ Ajd(param) = Ajd(upd.pre)
           /\ param = upd.pre

C12_Witness ==
    /\ upd.op = "update" /\ upd.theta = get_theta(kind, upd.pre)
    /\ kind = "Vasicek"
    /\ upd.pre.kappa = Rat(1, 2) /\ upd.pre.eta = Num(-1)
    /\ upd.pre.mat_k0 = Rat(-1, 2)

(***************************************************************************)
(* C13: after construction and after any sequence of update and from_theta *)
(* calls the AJD coefficients are the projection of the named scalars:     *)
(* GBM mat_k0 = mean - sigma^2/2, mat_h0 = sigma^2, mat_k1 = mat_h1 = 0;   *)
(* Vasicek mat_k0 = kappa*mean, mat_k1 = -kappa, mat_h0 = eta^2,           *)
(* mat_h1 = 0.                                                             *)
(***************************************************************************)
C13_AjdProjection ==
    IF kind = "GBM"
    THEN Ajd(param) = <<Sub(param.mean, Div(Mul(param.sigma, param.sigma), Num(2))),
                        Zero, Mul(param.sigma, param.sigma), Zero>>
    ELSE Ajd(param) = <<Mul(param.kappa, param.mean), Sub(Zero, param.kappa),
                        Mul(param.eta, param.eta), Zero>>

C13_Witness ==
    /\ kind = "GBM" /\ upd.op = "from_theta" /\ upd.err = "none"
    /\ upd.pre.mean = Num(-1) /\ upd.pre.sigma = Num(-1)
    /\ param.mean = Rat(1, 2) /\ param.sigma = Rat(1, 2)
    /\ param.mat_k0 = Rat(3, 8) /\ param.mat_h0 = Rat(1, 4)

(***************************************************************************)
(* C14: the affine form of the AJD coefficients agrees with the model's    *)
(* drift and diffusion at every state x: mat_k0 + mat_k1*x = drift(x) and  *)
(* mat_h0 + mat_h1*x = diffusion(x)^2.                                     *)
(***************************************************************************)
C14_AffineAgrees ==
    upd.op = "drift"
        => /\ Add(param.mat_k0, Mul(param.mat_k1, upd.x)) = upd.drift.data[1]
           /\ Add(param.mat_h0, Mul(param.mat_h1, upd.x))
                  = Mul(upd.diff.data[1], upd.diff.data[1])

C14_Witness ==
    /\ upd.op = "drift" /\ kind = "Vasicek"
    /\ param.mean = Rat(3, 2) /\ param.kappa = One /\ upd.x = Num(2)
    /\ upd.drift = Scalar(Rat(-1, 2))

(***************************************************************************)
(* C15: for every theta, also one shorter or longer than the parameter     *)
(* count, from_theta(theta) behaves as update(theta) on a default          *)
(* instance: the same object when update succeeds, the same ValueError     *)
(* when update fails.                                                      *)
(***************************************************************************)
C15_FromThetaAsUpdate ==
    upd.op = "from_theta"
        => LET r == IF kind = "GBM" THEN GBMparam_update(GBMparam_default, upd.theta)
                    ELSE VasicekParam_update(VasicekParam_default, upd.theta)
           IN  /\ upd.err = r.err
               /\ r.err = "none" => param = r.obj

(***************************************************************************)
(* C16: every parameter set offers is_valid(), which returns a boolean,    *)
(* never raises and changes nothing: for GBM true exactly when sigma > 0,  *)
(* for Vasicek false whenever kappa or eta is not positive.                *)
(***************************************************************************)
C16_IsValid ==
    upd.op = "is_valid"
        => /\ upd.err = "none"
           /\ param = upd.pre
           /\ upd.ret \in {<<TRUE>>, <<FALSE>>}
           /\ kind = "GBM" => upd.ret = <<Less(Zero, param.sigma)>>
           /\ (kind = "Vasicek"
                 /\ (~Less(Zero, param.kappa) \/ ~Less(Zero, param.eta)))
                    => upd.ret = <<FALSE>>

(***************************************************************************)
(* Definitions shared by the properties of the moment builder.             *)
(***************************************************************************)
\* the parameter object fails the validity check of its model
ParamInvalid ==
    IF kind = "GBM" THEN ~Less(Zero, param.sigma)
    ELSE ~Less(Zero, param.kappa) \/ ~Less(Zero, param.eta)

\* every item of the parameter vector of the last call is a float
ScalarTheta == \A k \in 1..Len(mom.theta) : IsScalar(mom.theta[k])

MomReturned == mom.op = "momcond" /\ mom.err = "none"

\* the instrument lag of the last momcond call: the one the caller named,
\* else the one the code uses
LagOf == IF mom.kw = None THEN instrlag ELSE mom.kw[1]

(***************************************************************************)
(* C17: validity is advisory: for a parameter set that is not valid        *)
(* (sigma <= 0) simulate and momcond run to completion as for valid        *)
(* parameters and raise no error on account of the invalidity.             *)
(***************************************************************************)
C17_ValidityAdvisory ==
    /\ (Called /\ pc = "idle" /\ ParamInvalid /\ PositiveArgs
            /\ StartBroadcasts(call.S, call.x0))
          => (/\ call.returned /\ call.err = "none"
              /\ sde.paths =
                    <<PathsOf(kind, param, call.x0, call.h, call.M, call.N, call.S,
                              sde.eps[1])>>)
    /\ (mom.op = "momcond" /\ mom.kw = None /\ ScalarTheta
            /\ ~Less(Zero, mom.theta[2].data[1])
            /\ Len(mom.data) > datalag + instrlag)
          => (/\ mom.err = "none"
              /\ Len(mom.moments) = Len(mom.data) - datalag
              /\ mom.gradient # << >>)

C17_Witness ==
    /\ Returned /\ kind = "GBM" /\ ParamInvalid /\ call.N >= 2
    /\ MomReturned
    /\ mom.theta = OwnTheta

(***************************************************************************)
(* C18: for a GBM instance, an instrument lag L >= 0 chosen by the caller, *)
(* datalag = 1 and a data series of nobs >= 2 points, momcond returns      *)
(* moments of shape (nobs - 1, 2*(1 + L)) and a gradient of shape          *)
(* (2*(1 + L), 2).                                                         *)
(***************************************************************************)
C18_MomentShape ==
    (mom.op = "momcond" /\ ScalarTheta /\ Len(mom.theta) = 2
        /\ Len(mom.data) >= 2 /\ LagOf >= 0)
        => /\ mom.err = "none"
           /\ Len(mom.moments) = Len(mom.data) - 1
           /\ \A t \in 1..Len(mom.moments) : Len(mom.moments[t]) = 2 * (1 + LagOf)
           /\ Len(mom.gradient) = 2 * (1 + LagOf)
           /\ \A k \in 1..Len(mom.gradient) : Len(mom.gradient[k]) = 2

(***************************************************************************)
(* C19: gradient row j and moment column j belong to the same pair of      *)
(* instrument and residual type: position 2*i + r holds instrument i and   *)
(* residual type r (0 the level, 1 the squared level) in both matrices,    *)
(* and the gradient has as many rows as the moments have columns.          *)
(***************************************************************************)
\* instrument i at observation t: the intercept, or the data i steps before
\* the regressor's
InstrumentAt(i, t) ==
    IF i = 0 THEN One
    ELSE IF t - i >= 1 THEN mom.data[t - i] ELSE Zero

\* residual of type r at observation t for the coefficients beta and gamma
ResidualAt(r, t, beta, gamma) ==
    IF r = 0
    THEN Sub(mom.data[t + 1], Add(beta[1], Mul(beta[2], mom.data[t])))
    ELSE Sub(Mul(mom.data[t + 1], mom.data[t + 1]),
             Add(gamma[1], Mul(gamma[2], mom.data[t])))

\* minus the mean over the observations of instrument i times the
\* derivative of the fitted value with respect to parameter j
GradientAt(i, j, nobs, J) ==
    Neg(Div(SumSeq([t \in 1..nobs |->
                Mul(InstrumentAt(i, t), Add(J[1][j], Mul(J[2][j], mom.data[t])))]),
            Num(nobs)))

C19_RowColumnOrder ==
    MomReturned
        => \A beta \in {betamat(mom.interval, mom.theta).val},
              gamma \in {Only(gammamat(mom.interval, mom.theta)).val},
              db \in {dbetamat(mom.interval, mom.theta)},
              dg \in {dgammamat(mom.interval, mom.theta)} :
              LET nobs == Len(mom.data) - 1
              IN  /\ Len(mom.gradient) = Len(mom.moments[1])
                  /\ Len(mom.gradient) = 2 * (1 + instrlag)
                  /\ \A i \in 0..instrlag, r \in 0..1 :
                        /\ \A t \in 1..nobs :
                              mom.moments[t][2 * i + r + 1] =
                                  Mul(ResidualAt(r, t, beta, gamma), InstrumentAt(i, t))
                        /\ \A j \in 1..Len(mom.theta) :
                              mom.gradient[2 * i + r + 1][j] =
                                  GradientAt(i, j, nobs, IF r = 0 THEN db ELSE dg)

C19_Witness ==
    /\ MomReturned
    /\ Len(mom.data) = MaxObs
    /\ \A i \in 0..instrlag, k \in 0..instrlag :
          i # k => /\ mom.moments[MaxObs - 1][2 * i + 1] # mom.moments[MaxObs - 1][2 * k + 1]
                   /\ mom.gradient[2 * i + 1] # mom.gradient[2 * k + 1]
    /\ \A i \in 0..instrlag :
          /\ mom.moments[MaxObs - 1][2 * i + 1] # mom.moments[MaxObs - 1][2 * i + 2]
          /\ mom.gradient[2 * i + 1] # mom.gradient[2 * i + 2]

(***************************************************************************)
(* C20: betamat, gammamat and momcond raise ValueError whenever exact_loc  *)
(* or exact_scale is not a scalar, and return no coefficient vector then.  *)
(***************************************************************************)
NonScalarCase ==
    /\ Len(mom.theta) >= 2
    /\ LET th == gbm_GBMparam(mom.theta[1], mom.theta[2])
       IN  \/ ~IsScalar(exact_loc(mom.interval, Scalar(Zero), th))
           \/ ~IsScalar(exact_scale(mom.interval, Scalar(Zero), th))

C20_NonScalarFails ==
    /\ (mom.op \in {"betamat", "gammamat"} /\ NonScalarCase)
          => (mom.err = "ValueError" /\ mom.coef = << >>)
    /\ (mom.op = "momcond" /\ NonScalarCase)
          => (mom.err = "ValueError" /\ mom.moments = << >> /\ mom.gradient = << >>)

(***************************************************************************)
(* C21: for GBM the closed-form Jacobians dbetamat_exact and               *)
(* dgammamat_exact agree with the numerically differentiated dbetamat and  *)
(* dgammamat within 1e-4 in absolute value at every parameter vector with  *)
(* sigma > 0.                                                              *)
(***************************************************************************)
Tolerance == Rat(1, 10000)

\* |a - b| <= Tolerance
Close(a, b) ==
    /\ ~Less(Tolerance, Sub(a, b))
    /\ ~Less(Tolerance, Sub(b, a))

RECURSIVE ReduceOnce(_, _, _, _, _, _, _)
ReduceOnce(knd, theta, h, eps, n, m, z) ==
    IF m >= eps.shape[2] THEN z
    ELSE Only({ReduceOnce(knd, theta, h, eps, n, m + 1, z1) :
                  z1 \in {sim_value(knd, theta, h, z, EpsSlice(eps, n, m))}})

\* the data of rows n, ..., N - 1 of the history, row n being given
RECURSIVE RowsFrom(_, _, _, _, _, _, _)
RowsFrom(knd, theta, h, eps, n, N, row) ==
    IF n >= N - 1 THEN row.data
    ELSE Only({row.data \o RowsFrom(knd, theta, h, eps, n + 1, N, nxt) :
                  nxt \in {RowOf(ReduceOnce(knd, theta, h, eps, n, 0, row),
                                 Size(row))}})

\* the history simulate stores for the arguments and the draws eps, N >= 1
SimulatedPaths(knd, theta, x0, h, N, S, eps) ==
    Only({IF S > 1 THEN [shape |-> <<N, StartCols(S, x0)>>, data |-> d]
          ELSE [shape |-> <<Len(d)>>, data |-> d] :
              d \in {RowsFrom(knd, theta, h, eps, 0, N,
                              Row(StartArray(1, S, x0), 0))}})

\* the increments of the first series over the N periods of a history of
\* N + 1 rows
Increments(paths, N, S) ==
    LET c == IF S > 1 THEN paths.shape[2] ELSE 1
    IN  [n \in 1..N |-> Sub(paths.data[n * c + 1], paths.data[(n - 1) * c + 1])]

\* tumbling blocks: one sum for each of the blocks that partition the series
BlockSums_tumbling(v, aggh) ==
    [k \in 1..(Len(v) \div aggh) |->
        SumSeq(SubSeq(v, (k - 1) * aggh + 1, k * aggh))]

\* sliding blocks: the sum of each aggh consecutive items
BlockSums(v, aggh) ==
    [k \in 1..(Len(v) - aggh + 1) |-> SumSeq(SubSeq(v, k, k + aggh - 1))]

\* what sim_realized returns for a simulated history
sim_realized(paths, N, S, aggh) ==
    Only({[returns |-> Vector(BlockSums(incr, aggh)),
           rvar |-> Vector(BlockSums([n \in 1..N |-> Square(incr[n])], aggh))] :
             incr \in {Increments(paths, N, S)}})

\* sde.sim_realized(x0, interval=h, ndiscr=M, nperiods=N, nsim=S, aggh=aggh):
\* the draws are made once, the history is the one simulate stores
SimRealizedCall(x0, h, M, N, S, aggh) ==
    /\ pc = "idle"
    /\ 1 <= aggh /\ aggh <= N
    /\ M >= 1 /\ S >= 1 /\ Less(Zero, h) /\ StartBroadcasts(S, x0)
    /\ LET eps == normal(rng, <<N + 1, M, S>>, Sqrt(h))
       IN  \E paths \in {SimulatedPaths(kind, param, x0, h, N + 1, S, eps)} :
             \E r \in {sim_realized(paths, N, S, aggh)} :
               /\ sde' = [paths |-> <<paths>>, eps |-> <<eps>>, h |-> <<h>>,
                          N |-> <<N + 1>>]
               /\ call' = [op |-> "sim_realized", x0 |-> x0, h |-> h, M |-> M,
                           N |-> N, S |-> S, aggh |-> aggh, err |-> "none",
                           nsub |-> 0, returns |-> r.returns, rvar |-> r.rvar]
    /\ rng' = (rng + (N + 1) * M * S) % Len(NormalStream)
    /\ UNCHANGED <<kind, param, pc, frame, upd, mom, other>>

RealizedArgs ==
    {<<Scalar(One), One, M, N, S, aggh>> :
        M \in {1, MaxM}, N \in 1..MaxN, S \in {1, 2}, aggh \in 1..MaxAgg}

NextRealized ==
    \E a \in RealizedArgs :
        call.op = "none" /\ SimRealizedCall(a[1], a[2], a[3], a[4], a[5], a[6])

SpecRealized == Init /\ [][NextRealized]_vars

StdDraws == normal(call.rng, <<call.N, call.M, call.S>>, One)

\* what the last sub-step added beyond sim's drift term
NoiseTerm ==
    Map2("-", frame.cur,
         Map2("/", euler_loc(kind, call.h, frame.prev, param),
              Scalar(Num(sim_M(LastSlice)))))

C23_NoiseScaledOnce ==
    /\ (Called /\ PositiveArgs /\ sde.eps # None /\ call.err = "none")
          => sde.eps[1] = StdDraws
    /\ (pc = "reduce" /\ frame.it > 0 /\ PositiveArgs)
          => NoiseTerm =
               Map2("*",
                    Map2("*", diff(kind, frame.prev, param),
                         Scalar(SqrtQuot(call.h, call.M))),
                    EpsSlice(StdDraws, frame.n, frame.it - 1))

(***************************************************************************)
(* C24: in momcond the instruments paired with the residual of data[t+1],  *)
(* whose regressor is data[t], are the constant 1 and the lagged values    *)
(* data[t-1], ..., data[t-instrlag]: none is data[t+1], data[t] or a later *)
(* observation, and an instrument whose index falls before the start of    *)
(* the series is 0 while the row is kept.  (Observation t of the text is   *)
(* item t + 1 of the sequence mom.data.)                                   *)
(***************************************************************************)
C24_InstrumentsLagged ==
    MomReturned
        => \A ins \in {Instruments(mom.data)}, dm \in {Regressors(mom.data)} :
              LET nobs == Len(mom.data) - datalag
              IN  /\ Len(ins) = 1 + instrlag
                  /\ Len(dm) = nobs
                  /\ Len(mom.moments) = nobs
                  /\ \A i \in 1..(1 + instrlag) : Len(ins[i]) = nobs
                  /\ \A s \in 1..nobs :
                        /\ dm[s] = <<One, mom.data[s]>>
                        /\ ins[1][s] = One
                        /\ \A i \in 1..instrlag :
                              ins[i + 1][s] =
                                  IF s - i >= 1 THEN mom.data[s - i] ELSE Zero

C24_Witness ==
    /\ MomReturned
    /\ Len(mom.data) = MaxObs
    /\ \A s \in 1..MaxObs, u \in 1..MaxObs :
          s # u => mom.data[s] # mom.data[u] /\ mom.data[s] # Zero
    /\ Instruments(mom.data)[2][1] = Zero
    /\ Instruments(mom.data)[1 + instrlag][MaxObs - 1] = mom.data[MaxObs - 1 - instrlag]
    /\ mom.moments[1][3] = Zero /\ mom.moments[1][1] # Zero

(***************************************************************************)
(* C25: two simulate calls on distinct simulator instances holding         *)
(* distinct parameter objects, interleaved at any sub-step granularity,    *)
(* each produce the path history they produce alone with the same noise    *)
(* draws; no field or tensor written by one call is read by the other.     *)
(***************************************************************************)
OtherReturned == other.call.op = "simulate" /\ other.call.returned

C25_InstancesIndependent ==
    /\ Returned
          => sde.paths =
               <<PathsOf(kind, param, call.x0, call.h, call.M, call.N, call.S,
                         sde.eps[1])>>
    /\ OtherReturned
          => other.sde.paths =
               <<PathsOf(kind, other.theta_true, other.call.x0, other.call.h,
                         other.call.M, other.call.N, other.call.S,
                         other.sde.eps[1])>>
    /\ (Called /\ call.err = "none") => sde.h = <<call.h>> /\ sde.N = <<call.N>>
    /\ (other.call.op = "simulate" /\ other.call.err = "none")
          => other.sde.h = <<other.call.h>> /\ other.sde.N = <<other.call.N>>

\* the first instance's call began after the second instance's call had
\* drawn its errors and has returned while the second is inside its loop
C25_Witness ==
    /\ Returned /\ call.N >= 3 /\ call.M >= 2
    /\ other.pc = "reduce" /\ other.frame.it > 0 /\ other.frame.n > 0
    /\ other.call.N >= 3
    /\ call.rng = (other.call.rng + other.call.N * other.call.M * other.call.S)
                      % Len(NormalStream)
    /\ call.rng # other.call.rng
    /\ param # other.theta_true
    /\ sde.paths[1] # other.frame.x

(***************************************************************************)
(* C26: when update(theta) fails because theta has the wrong length, the   *)
(* parameter set is left exactly as before the call: no named scalar has   *)
(* been assigned and the AJD coefficients still are the projection of the  *)
(* unchanged named scalars.                                                *)
(***************************************************************************)
\* the AJD coefficients that belong to the named scalars of p
ProjectionOf(p) ==
    IF kind = "GBM"
    THEN <<Sub(p.mean, Div(Mul(p.sigma, p.sigma), Num(2))), Zero,
           Mul(p.sigma, p.sigma), Zero>>
    ELSE <<Mul(p.kappa, p.mean), Sub(Zero, p.kappa), Mul(p.eta, p.eta), Zero>>

C26_FailedUpdateKeeps ==
    (upd.op = "update" /\ upd.err # "none")
        => /\ upd.err = "ValueError" /\ Len(upd.theta) # nparams
           /\ param = upd.pre
           /\ Scalars(param) = Scalars(upd.pre)
           /\ Ajd(param) = ProjectionOf(upd.pre)

C26_Witness ==
    /\ upd.op = "update" /\ upd.err = "ValueError" /\ kind = "Vasicek"
    /\ Len(upd.theta) = 2
    /\ upd.theta[1] # upd.pre.mean /\ upd.theta[2] # upd.pre.kappa
    /\ Scalars(param) = Scalars(upd.pre)
    /\ Scalars(upd.pre) # Scalars(VasicekParam_default)

====
